---- MODULE Spec2Model ----
(***************************************************************************)
(* A model of run_backtest (src/backtest.py): the per-signal entry/exit    *)
(* state machine, the cost and P&L computation, the sequential capital     *)
(* accumulator and the equity-curve assembly.                              *)
(*                                                                         *)
(* Numbers.  The program computes in binary floating point; the model      *)
(* computes the same expressions over the rationals, exactly.  A rational  *)
(* is [neg, num, den] with num and den naturals written as little-endian   *)
(* sequences of base-10000 digits (TLC's integers are 32 bits wide, and    *)
(* compounded capital needs more).  den = <<>> is no rational: it stands   *)
(* for Python's None / NaN.  Dates are day numbers, so that a difference   *)
(* of dates is a number of calendar days.                                  *)
(***************************************************************************)
EXTENDS Integers, Sequences, FiniteSets, TLC

----------------------------------------------------------------------------
(* Exact arithmetic *)

Base == 100 * 100

Tl(s) == IF s = <<>> THEN <<>> ELSE Tail(s)
Hd(s) == IF s = <<>> THEN 0 ELSE Head(s)
Cons(x, s) == IF x = 0 /\ s = <<>> THEN <<>> ELSE <<x>> \o s

RECURSIVE BFromNat(_)
BFromNat(n) == IF n = 0 THEN <<>> ELSE <<n % Base>> \o BFromNat(n \div Base)

RECURSIVE BAddC(_, _, _)
BAddC(a, b, c) ==
    IF a = <<>> /\ b = <<>> THEN BFromNat(c)
    ELSE LET s == Hd(a) + Hd(b) + c
         IN  <<s % Base>> \o BAddC(Tl(a), Tl(b), s \div Base)

BAdd(a, b) == BAddC(a, b, 0)

\* a - b - c, for a >= b + c
RECURSIVE BSubC(_, _, _)
BSubC(a, b, c) ==
    IF a = <<>> THEN <<>>
    ELSE LET s == Hd(a) - Hd(b) - c
         IN  IF s < 0 THEN Cons(s + Base, BSubC(Tl(a), Tl(b), 1))
                      ELSE Cons(s, BSubC(Tl(a), Tl(b), 0))

BSub(a, b) == BSubC(a, b, 0)

\* -1, 0 or 1, for a and b of the same length
RECURSIVE BCmpEq(_, _)
BCmpEq(a, b) ==
    IF a = <<>> THEN 0
    ELSE LET hi == BCmpEq(Tail(a), Tail(b))
         IN  IF hi # 0 THEN hi
             ELSE IF Head(a) < Head(b) THEN 0 - 1
             ELSE IF Head(a) > Head(b) THEN 1 ELSE 0

BCmp(a, b) ==
    IF Len(a) < Len(b) THEN 0 - 1
    ELSE IF Len(a) > Len(b) THEN 1
    ELSE BCmpEq(a, b)

RECURSIVE BMulSC(_, _, _)
BMulSC(a, k, c) ==
    IF a = <<>> THEN BFromNat(c)
    ELSE LET s == Head(a) * k + c
         IN  <<s % Base>> \o BMulSC(Tail(a), k, s \div Base)

BMulS(a, k) == IF k = 0 THEN <<>> ELSE BMulSC(a, k, 0)

RECURSIVE BMul(_, _)
BMul(a, b) ==
    IF a = <<>> \/ b = <<>> THEN <<>>
    ELSE BAdd(BMulS(a, Head(b)), Cons(0, BMul(a, Tail(b))))

RECURSIVE BDivRem(_, _)
BDivRem(a, k) ==
    IF a = <<>> THEN [q |-> <<>>, r |-> 0]
    ELSE LET hi  == BDivRem(Tail(a), k)
             cur == hi.r * Base + Head(a)
         IN  [q |-> Cons(cur \div k, hi.q), r |-> cur % k]

\* Divisors tried when a fraction is reduced: the primes that divide the
\* denominators the inputs below give rise to, powers of ten first.
Divisors == <<Base, 100, 10, 2, 3, 5, 7, 11>>

RECURSIVE Cancel(_, _, _)
Cancel(n, d, j) ==
    IF j > Len(Divisors) \/ d = <<1>> THEN <<n, d>>
    ELSE LET dq == BDivRem(d, Divisors[j])
         IN  IF dq.r # 0 THEN Cancel(n, d, j + 1)
             ELSE LET nq == BDivRem(n, Divisors[j])
                  IN  IF nq.r # 0 THEN Cancel(n, d, j + 1)
                      ELSE Cancel(nq.q, dq.q, j)

Rat(neg, n, d) ==
    IF n = <<>> THEN [neg |-> FALSE, num |-> <<>>, den |-> <<1>>]
    ELSE LET c == Cancel(n, d, 1)
         IN  [neg |-> neg, num |-> c[1], den |-> c[2]]

Abs(n) == IF n < 0 THEN 0 - n ELSE n
RQ(n, d) == Rat(n < 0, BFromNat(Abs(n)), BFromNat(d))
RInt(n) == RQ(n, 1)
RNeg(a) == IF a.num = <<>> THEN a ELSE [a EXCEPT !.neg = ~a.neg]
RMul(a, b) == Rat(a.neg # b.neg, BMul(a.num, b.num), BMul(a.den, b.den))
RDiv(a, b) == Rat(a.neg # b.neg, BMul(a.num, b.den), BMul(a.den, b.num))

RAdd(a, b) ==
    LET x == BMul(a.num, b.den)
        y == BMul(b.num, a.den)
        d == BMul(a.den, b.den)
    IN  IF a.neg = b.neg THEN Rat(a.neg, BAdd(x, y), d)
        ELSE IF BCmp(x, y) >= 0 THEN Rat(a.neg, BSub(x, y), d)
        ELSE Rat(b.neg, BSub(y, x), d)

RSub(a, b) == RAdd(a, RNeg(b))
RSign(a) == IF a.num = <<>> THEN 0 ELSE IF a.neg THEN 0 - 1 ELSE 1

\* -1, 0 or 1: by the signs, then by cross-multiplication
RCmp(a, b) ==
    IF RSign(a) # RSign(b) THEN (IF RSign(a) < RSign(b) THEN 0 - 1 ELSE 1)
    ELSE RSign(a) * BCmp(BMul(a.num, b.den), BMul(b.num, a.den))

REq(a, b) == RCmp(a, b) = 0
RLe(a, b) == RCmp(a, b) <= 0
RLt(a, b) == RCmp(a, b) < 0

\* Python's None (and pandas' NaN) where a number is expected.
None == [neg |-> FALSE, num |-> <<>>, den |-> <<>>]
\* Python's None where a date or a calendar position is expected.
NoDate == 0 - 1
\* Python's None where a string is expected.
NoneStr == "None"
\* Python's truth value of an optional number: None and 0 are false.
Truthy(x) == x # None /\ x.num # <<>>

----------------------------------------------------------------------------
(* The inputs of a run *)

MaxDay == 3
MaxSignals == 2
MaxHold == 2

Codes == {"X", "Y"}
Dates == 1 .. MaxDay
SignalDates == 0 .. MaxDay

Bar(o, h, l, c) == [open |-> o, high |-> h, low |-> l, close |-> c]

\* What a date is for instrument X: a flat session, a wide one, a session
\* locked at 11 or at 9, a halt (X has no row, the date is a session), or no
\* session at all (no instrument has a row).
DayKinds == {"flat", "wide", "up", "down", "halt", "gap"}

KindBar(kind) ==
    CASE kind = "flat" -> Bar(10, 10, 10, 10)
      [] kind = "wide" -> Bar(10, 11, 9, 10)
      [] kind = "up"   -> Bar(11, 11, 11, 11)
      [] kind = "down" -> Bar(9, 9, 9, 9)

\* The price panel (MultiIndex code, date): per code, the rows by date.
\* Y trades flat on every session.
Panel(row) ==
    [c \in Codes |->
        IF c = "X"
        THEN [d \in {e \in DOMAIN row : row[e] \notin {"halt", "gap"}} |-> KindBar(row[d])]
        ELSE [d \in {e \in DOMAIN row : row[e] # "gap"} |-> KindBar("flat")]]

Signal(d, c) == [date |-> d, code |-> c]
SignalsOver(ds) ==
    UNION {[1 .. n -> {Signal(d, c) : d \in ds, c \in Codes}] : n \in 0 .. MaxSignals}

Pct(n) == RQ(n, 100)
Thresholds == {None, Pct(5)}

----------------------------------------------------------------------------
(* The state of a run *)

VARIABLES
    \* the arguments
    signals, kline_df, initial_capital, position_size, holding_period,
    take_profit_pct, stop_loss_pct, commission_rate, stamp_duty_rate,
    \* the locals that live across statements
    trade_log, capital, equity_curve, sorted_signals, all_trading_days,
    k,                  \* how many of sorted_signals the for loop has taken
    signal_date, stock_code, buy_date_loc, buy_date, buy_price,
    trade_value, commission_buy, i, sell_date, sell_price, sell_reason,
    total_commission, net_profit, return_pct,
    pc,                 \* where the run stands
    history,            \* per record of trade_log: the signal it comes from (its
                        \* position in sorted_signals) and the capital,
                        \* trade_value and net_profit it was settled with
    run,                \* which call of run_backtest this is, counted from 1
    first_result,       \* what the first call gave back, kept by the caller
    \* gui_app.py: the StockToolGUI object, its worker threads with their
    \* subprocesses, the callbacks Tk holds for root.after, and the tasks a
    \* "still running" warning was shown for
    app, threads, after_queue, shown,
    \* fetch_kline.py: a call of fetch_one with the file at csv_path
    fetcher,
    \* test.py: a call of get_kline_data
    reader

args == <<signals, kline_df, initial_capital, position_size, holding_period,
          take_profit_pct, stop_loss_pct, commission_rate, stamp_duty_rate>>
entry == <<signal_date, stock_code, buy_date_loc, buy_date, buy_price,
           trade_value, commission_buy>>
exit == <<sell_date, sell_price, sell_reason>>
ledger == <<trade_log, capital, total_commission, net_profit, return_pct, history>>
calls == <<run, first_result>>
backtest == <<args, entry, exit, ledger, equity_curve, sorted_signals,
              all_trading_days, k, i, pc, calls>>
gui == <<app, threads, after_queue, shown>>
vars == <<backtest, gui, fetcher, reader>>

\* A function that is not being called.
NotCalled == [pc |-> "none"]

\* gui_app.py:48-50, 220-226 and 317-323: no process, no threads, the start
\* buttons enabled and the stop buttons disabled.
NewApp ==
    [current_process |-> 0, fetch_thread |-> 0, select_thread |-> 0,
     fetch_btn |-> "normal", stop_fetch_btn |-> "disabled",
     select_btn |-> "normal", stop_select_btn |-> "disabled"]
NoGui == app = NewApp /\ threads = <<>> /\ after_queue = <<>> /\ shown = {}

----------------------------------------------------------------------------
(* Library calls *)

RECURSIVE SortedSeq(_)
SortedSeq(S) ==
    IF S = {} THEN <<>>
    ELSE LET m == CHOOSE x \in S : \A y \in S : x <= y
         IN  <<m>> \o SortedSeq(S \ {m})

\* The trading days read from the rows of one instrument only.
TradingDaysOfX(df) == SortedSeq(DOMAIN df["X"])

\* kline_df.index.get_level_values('date').unique().sort_values()
TradingDays(df) == SortedSeq(UNION {DOMAIN df[c] : c \in DOMAIN df})

\* Index.searchsorted(v, side): the 0-based insertion position in a sorted index.
SearchSorted(days, v, side) ==
    IF side = "right"
    THEN Cardinality({j \in 1 .. Len(days) : days[j] <= v})
    ELSE Cardinality({j \in 1 .. Len(days) : days[j] < v})

\* index[loc] with Python's 0-based positions; a negative one counts from the end.
At(days, loc) == IF loc < 0 THEN days[Len(days) + loc + 1] ELSE days[loc + 1]

\* kline_df.loc[(code, date)] raises KeyError when the panel has no such row.
HasRow(df, code, date) == code \in DOMAIN df /\ date \in DOMAIN df[code]
Row(df, code, date) == df[code][date]

\* A signal carries its date as a 'YYYY-MM-DD' string, which sorted() compares
\* character by character: the zero-padded digits of the day number.
DateStr(d) == <<d \div 10, d % 10>>
StrLe(a, b) == a[1] < b[1] \/ (a[1] = b[1] /\ a[2] <= b[2])

\* An insertion that puts a signal before the signals of its own date.
InsertBeforeDate(t, x) ==
    LET n == Cardinality({j \in 1 .. Len(t) :
                 ~StrLe(DateStr(x.date), DateStr(t[j].date))})
    IN  SubSeq(t, 1, n) \o <<x>> \o SubSeq(t, n + 1, Len(t))

\* sorted(signals, key=lambda x: x[0]): a stable sort by the date string.
InsertByDate(t, x) ==
    LET n == Cardinality({j \in 1 .. Len(t) :
                 StrLe(DateStr(t[j].date), DateStr(x.date))})
    IN  SubSeq(t, 1, n) \o <<x>> \o SubSeq(t, n + 1, Len(t))

\* The sort of the signals taken once each, a repeated signal dropped.
RECURSIVE SortedDistinctByDate(_)
SortedDistinctByDate(s) ==
    IF s = <<>> THEN <<>>
    ELSE LET t == SortedDistinctByDate(SubSeq(s, 1, Len(s) - 1))
         IN  IF \E j \in 1 .. Len(t) : t[j] = s[Len(s)]
             THEN t
             ELSE InsertByDate(t, s[Len(s)])

RECURSIVE SortedByDate(_)
SortedByDate(s) ==
    IF s = <<>> THEN <<>>
    ELSE InsertByDate(SortedByDate(SubSeq(s, 1, Len(s) - 1)), s[Len(s)])

----------------------------------------------------------------------------
(* The run *)

DefaultCommissionRate == RQ(3, 10000)
DefaultStampDutyRate == RQ(1, 1000)

\* The limit factors taken as the nominal ten per cent.
NominalLimitUpFactor == RQ(11, 10)
NominalLimitDownFactor == RQ(9, 10)

LimitUpFactor == RQ(1098, 1000)
LimitDownFactor == RQ(902, 1000)

\* What the caller holds before any call has returned.
NoResult == [trade_log |-> <<>>, capital |-> None, equity_curve |-> <<>>, pc |-> "start"]

Call(row, sigs, cap, ps, hp, tp, sl) ==
    /\ signals = sigs
    /\ kline_df = Panel(row)
    /\ initial_capital = RInt(cap)
    /\ position_size = ps
    /\ holding_period = hp
    /\ take_profit_pct = tp
    /\ stop_loss_pct = sl
    /\ commission_rate = DefaultCommissionRate
    /\ stamp_duty_rate = DefaultStampDutyRate
    /\ trade_log = <<>>
    /\ capital = None
    /\ equity_curve = <<>>
    /\ sorted_signals = <<>>
    /\ all_trading_days = <<>>
    /\ k = 0
    /\ i = 0
    /\ signal_date = NoDate /\ stock_code = NoneStr
    /\ buy_date_loc = NoDate /\ buy_date = NoDate /\ buy_price = None
    /\ trade_value = None /\ commission_buy = None
    /\ sell_date = NoDate /\ sell_price = None /\ sell_reason = NoneStr
    /\ total_commission = None /\ net_profit = None /\ return_pct = None
    /\ history = <<>>
    /\ pc = "start"
    /\ run = 1
    /\ first_result = NoResult

\* The calls explored.  One early signal on X over the panels of flat, locked
\* and halted sessions, with every choice of thresholds; one signal on X of
\* any date over the panels with wide sessions and over the panels, one date
\* longer, with missing dates.  Every list of early signals on X and Y, with
\* the longest holding period and half the capital a trade, over the panels
\* on which X is locked up or down on every date, from the third on in the
\* same way.  One early signal on X with twice the capital a trade, which the
\* signature accepts.  Every list of signals of the earliest and of the last
\* date, on flat sessions.
Calls ==
    \/ \E row \in [Dates -> {"flat", "up", "down", "halt"}], d \in {0, 1},
          hp \in 1 .. MaxHold, tp \in Thresholds, sl \in Thresholds :
          Call(row, <<Signal(d, "X")>>, 100000, RInt(1), hp, tp, sl)
    \/ \E row \in [Dates -> {"flat", "wide", "halt"}], d \in SignalDates,
          hp \in 1 .. MaxHold :
          Call(row, <<Signal(d, "X")>>, 100000, RInt(1), hp, Pct(5), Pct(5))
    \/ \E row \in [1 .. MaxDay + 1 -> {"flat", "gap"}], d \in 0 .. MaxDay + 1,
          hp \in 1 .. MaxHold :
          Call(row, <<Signal(d, "X")>>, 100000, RInt(1), hp, Pct(5), Pct(5))
    \/ \E row \in {r \in [Dates -> {"up", "down"}] : \A d \in Dates : d > 3 => r[d] = r[3]},
          sigs \in SignalsOver({0, 1}),
          ps \in {RQ(1, 2)} :
          Call(row, sigs, 100000, ps, MaxHold, Pct(5), Pct(5))
    \/ \E row \in [Dates -> {"flat", "down"}], hp \in 1 .. MaxHold :
          Call(row, <<Signal(0, "X")>>, 100000, RInt(2), hp, Pct(5), Pct(5))
    \/ \E sigs \in SignalsOver({0, MaxDay}) :
          Call([d \in Dates |-> "flat"], sigs, 100000, RInt(1), 1, None, None)

\* The state at the call of run_backtest; nothing else of the repository runs.
Init == Calls /\ NoGui /\ fetcher = NotCalled /\ reader = NotCalled

\* A log that outlives the call, as a module-level list would.
KeptTradeLog(old) == old

\* Line 31: trade_log = [], a new list in every call.
NewTradeLog(old) == <<>>

\* Lines 31-40.
Start ==
    /\ pc = "start"
    /\ trade_log' = NewTradeLog(trade_log)
    /\ capital' = initial_capital
    /\ all_trading_days' = TradingDays(kline_df)
    /\ sorted_signals' = SortedByDate(signals)
    /\ IF TradingDays(kline_df) = <<>>
       THEN \* equity_curve.iloc[0] of an empty Series: IndexError
            /\ pc' = "raised"
            /\ UNCHANGED equity_curve
       ELSE /\ pc' = "loop"
            /\ equity_curve' =
                 [d \in UNION {DOMAIN kline_df[c] : c \in DOMAIN kline_df} |->
                    IF d = TradingDays(kline_df)[1] THEN initial_capital ELSE None]
    /\ UNCHANGED <<args, calls, gui, fetcher, reader, entry, exit, total_commission, net_profit, return_pct,
                   history, k, i>>

\* The search kept inside the calendar: a late signal buys on the last day.
BuyDateLocClamped(days, date) ==
    IF SearchSorted(days, date, "right") >= Len(days) /\ days # <<>>
    THEN Len(days) - 1
    ELSE SearchSorted(days, date, "right")

\* The search that lands on the signal's own session.
BuyDateLocLeft(days, date) == SearchSorted(days, date, "left")

\* Line 47: the position of the first trading day after the signal date.
BuyDateLoc(days, date) == SearchSorted(days, date, "right")

\* Line 64: a session locked at the upper limit cannot be bought.
LimitUp(day_data, prev_close) ==
    /\ day_data.open = day_data.low
    /\ RLt(RMul(RInt(prev_close), LimitUpFactor), RInt(day_data.open))

\* The notional sized from the starting capital.
TradeValueOfInitial(cap, ps) == RMul(initial_capital, ps)

\* Line 74.
TradeValue(cap, ps) == RMul(cap, ps)

\* Lines 42-78: take the next signal and try to buy.
NextSignal ==
    /\ pc \in {"loop", "settled"}
    /\ k < Len(sorted_signals)
    /\ k' = k + 1
    /\ signal_date' = sorted_signals[k + 1].date
    /\ stock_code' = sorted_signals[k + 1].code
    /\ buy_date_loc' = BuyDateLoc(all_trading_days, signal_date')
    /\ IF buy_date_loc' >= Len(all_trading_days)
       THEN \* no trading day after the signal: continue
            /\ pc' = "loop"
            /\ UNCHANGED <<buy_date, buy_price, trade_value, commission_buy, exit, i>>
       ELSE /\ buy_date' = At(all_trading_days, buy_date_loc')
            /\ IF ~HasRow(kline_df, stock_code', buy_date')
               THEN \* KeyError at line 55: continue
                    /\ pc' = "loop"
                    /\ UNCHANGED <<buy_price, trade_value, commission_buy, exit, i>>
               ELSE LET buy_day_data == Row(kline_df, stock_code', buy_date')
                        prev_day_loc == SearchSorted(all_trading_days, buy_date', "left") - 1
                        prev_day     == At(all_trading_days, prev_day_loc)
                        skip ==
                            /\ prev_day_loc >= 0
                            /\ \/ ~HasRow(kline_df, stock_code', prev_day)   \* KeyError at line 63
                               \/ LimitUp(buy_day_data, Row(kline_df, stock_code', prev_day).close)
                    IN  /\ buy_price' = RInt(buy_day_data.open)
                        /\ IF skip
                           THEN /\ pc' = "loop"
                                /\ UNCHANGED <<trade_value, commission_buy, exit, i>>
                           ELSE /\ trade_value' = TradeValue(capital, position_size)
                                /\ commission_buy' = RMul(trade_value', commission_rate)
                                /\ sell_date' = NoDate
                                /\ sell_price' = None
                                /\ sell_reason' = NoneStr
                                \* range(1, holding_period + 1) may be empty
                                /\ IF holding_period >= 1
                                   THEN i' = 1 /\ pc' = "scan"
                                   ELSE i' = i /\ pc' = "exit"
    /\ UNCHANGED <<args, calls, gui, fetcher, reader, ledger, equity_curve, sorted_signals, all_trading_days>>

\* Lines 93 and 94.
TakeProfitPrice(price, tp) == RMul(price, RAdd(RInt(1), tp))

\* The take-profit test without its guard, an unset threshold read as zero.
TakeProfitHitUnguarded(day_data, price, tp) ==
    RLe(TakeProfitPrice(price, IF Truthy(tp) THEN tp ELSE RInt(0)), RInt(day_data.high))

\* Line 93: take_profit_pct and daily_high >= buy_price * (1 + take_profit_pct).
TakeProfitHit(day_data, price, tp) ==
    Truthy(tp) /\ RLe(TakeProfitPrice(price, tp), RInt(day_data.high))

\* The stop-loss threshold set above the entry price.
StopLossPriceAbove(price, sl) == RMul(price, RAdd(RInt(1), sl))

\* Lines 100 and 101.
StopLossPrice(price, sl) == RMul(price, RSub(RInt(1), sl))

\* A stop-loss that is not taken on a session that opens at its high, as if the
\* guard of the forced exit covered it.
StopLossHitUnlessLocked(day_data, price, sl) ==
    /\ Truthy(sl)
    /\ RLe(RInt(day_data.low), StopLossPrice(price, sl))
    /\ day_data.open # day_data.high

StopLossHit(day_data, price, sl) ==
    Truthy(sl) /\ RLe(RInt(day_data.low), StopLossPrice(price, sl))

\* The two threshold tests in the other order.
DayOutcomeStopLossFirst(day_data, price, tp, sl) ==
    IF StopLossHit(day_data, price, sl) THEN "stop_loss"
    ELSE IF TakeProfitHit(day_data, price, tp) THEN "take_profit"
    ELSE NoneStr

\* Lines 92-104: what a session of the holding scan decides.
DayOutcome(day_data, price, tp, sl) ==
    IF TakeProfitHit(day_data, price, tp) THEN "take_profit"
    ELSE IF StopLossHit(day_data, price, sl) THEN "stop_loss"
    ELSE NoneStr

\* A scan that starts on the entry session itself.
CurrentDayLocFromEntry(loc, offset) == loc + offset - 1

\* Line 81: current_day_loc = buy_date_loc + i, with i from 1.
CurrentDayLoc(loc, offset) == loc + offset

\* Lines 80-108: one iteration of the holding scan.
ScanDay ==
    /\ pc = "scan"
    /\ LET current_day_loc == CurrentDayLoc(buy_date_loc, i)
           current_date == At(all_trading_days, current_day_loc)
           outcome ==
               IF current_day_loc >= Len(all_trading_days) THEN "break"
               ELSE IF ~HasRow(kline_df, stock_code, current_date) THEN NoneStr
               ELSE DayOutcome(Row(kline_df, stock_code, current_date),
                               buy_price, take_profit_pct, stop_loss_pct)
       IN  CASE outcome = "take_profit" ->
                  /\ sell_price' = TakeProfitPrice(buy_price, take_profit_pct)
                  /\ sell_reason' = "take_profit"
                  /\ sell_date' = current_date
                  /\ pc' = "exit"
                  /\ i' = i
             [] outcome = "stop_loss" ->
                  /\ sell_price' = StopLossPrice(buy_price, stop_loss_pct)
                  /\ sell_reason' = "stop_loss"
                  /\ sell_date' = current_date
                  /\ pc' = "exit"
                  /\ i' = i
             [] outcome = "break" ->
                  /\ pc' = "exit"
                  /\ UNCHANGED <<exit, i>>
             [] OTHER ->
                  \* no trigger, or KeyError at line 88: the next offset, if any
                  /\ IF i < holding_period
                     THEN i' = i + 1 /\ pc' = "scan"
                     ELSE i' = i /\ pc' = "exit"
                  /\ UNCHANGED exit
    /\ UNCHANGED <<args, calls, gui, fetcher, reader, entry, ledger, equity_curve, sorted_signals,
                   all_trading_days, k>>

\* Line 122: a session locked at the lower limit cannot be sold.
LimitDown(day_data, prev_close) ==
    /\ day_data.open = day_data.high
    /\ RLt(RInt(day_data.open), RMul(RInt(prev_close), LimitDownFactor))

\* A forced exit moved back to the last trading day when the window is longer
\* than the calendar.
FinalSellDayLocClamped(loc, hp) ==
    IF loc + hp >= Len(all_trading_days) THEN Len(all_trading_days) - 1 ELSE loc + hp

\* Line 112.
FinalSellDayLoc(loc, hp) == loc + hp

\* Lines 110-131: the forced exit at the end of the holding period.
ForcedExit ==
    /\ pc = "exit"
    /\ pc' = "settle"
    /\ LET final_sell_day_loc == FinalSellDayLoc(buy_date_loc, holding_period)
           final_date   == At(all_trading_days, final_sell_day_loc)
           prev_day_loc == SearchSorted(all_trading_days, final_date, "left") - 1
           prev_day     == At(all_trading_days, prev_day_loc)
       IN  IF sell_reason # NoneStr \/ final_sell_day_loc >= Len(all_trading_days)
           THEN UNCHANGED exit
           ELSE /\ sell_date' = final_date
                /\ IF \/ ~HasRow(kline_df, stock_code, final_date)   \* KeyError at line 117
                      \/ ~HasRow(kline_df, stock_code, prev_day)     \* KeyError at line 120
                      \/ LimitDown(Row(kline_df, stock_code, final_date),
                                   Row(kline_df, stock_code, prev_day).close)
                   THEN UNCHANGED <<sell_price, sell_reason>>
                   ELSE /\ sell_price' = RInt(Row(kline_df, stock_code, final_date).close)
                        /\ sell_reason' = "holding_period"
    /\ UNCHANGED <<args, calls, gui, fetcher, reader, entry, ledger, equity_curve, sorted_signals,
                   all_trading_days, k, i>>

\* The costs without the stamp duty of the sale.
TotalCommissionNoStampDuty(tv, buy, sell, cr, sr) ==
    RAdd(RMul(tv, cr), RMul(RMul(tv, RDiv(sell, buy)), cr))

\* Lines 135-137.
TotalCommission(tv, buy, sell, cr, sr) ==
    LET ratio           == RDiv(sell, buy)
        commission_sell == RMul(RMul(tv, ratio), cr)
        stamp_duty      == RMul(RMul(tv, ratio), sr)
    IN  RAdd(RAdd(RMul(tv, cr), commission_sell), stamp_duty)

\* Line 139.
NetProfit(tv, buy, sell, commission) ==
    RSub(RMul(tv, RSub(RDiv(sell, buy), RInt(1))), commission)

\* The return taken on the whole capital instead of the notional of the trade.
ReturnPctOfCapital(np, tv) == RDiv(np, capital)

\* Line 140.
ReturnPct(np, tv) == RDiv(np, tv)

\* The capital restarted from its initial value at every trade.
NewCapitalOfInitial(cap, np) == RAdd(initial_capital, np)

\* Line 156.
NewCapital(cap, np) == RAdd(cap, np)

\* The trading sessions from the entry to the exit, counted on the calendar.
HoldingSessions(buy, sell) ==
    Cardinality({n \in 1 .. Len(all_trading_days) :
                    buy < all_trading_days[n] /\ all_trading_days[n] <= sell})

\* Line 151: (sell_date - buy_date).days, a difference of calendar dates.
HoldingDays(buy, sell) == sell - buy

\* Lines 142-152.
TradeRecord(ret, commission) ==
    [code         |-> stock_code,
     buy_date     |-> buy_date,
     buy_price    |-> buy_price,
     sell_date    |-> sell_date,
     sell_price   |-> sell_price,
     sell_reason  |-> sell_reason,
     return_pct   |-> ret,
     commission   |-> commission,
     holding_days |-> HoldingDays(buy_date, sell_date)]

\* The test of a sale made on the sell date, which line 114 sets before the
\* sale is known to go through.
ResolvedByDate(date, price) == date # NoDate

\* Line 134: sell_price is not None.
Resolved(date, price) == price # None

\* A log that takes the new record at its head.
PrependRecord(log, r) == <<r>> \o log

\* Line 142: trade_log.append(...).
AppendRecord(log, r) == Append(log, r)

\* Lines 133-156: log the trade and update the capital.
Settle ==
    /\ pc = "settle"
    /\ pc' = "settled"
    /\ IF ~Resolved(sell_date, sell_price)
       THEN UNCHANGED ledger
       ELSE /\ total_commission' =
                 TotalCommission(trade_value, buy_price, sell_price,
                                 commission_rate, stamp_duty_rate)
            /\ net_profit' =
                 NetProfit(trade_value, buy_price, sell_price, total_commission')
            /\ return_pct' = ReturnPct(net_profit', trade_value)
            /\ trade_log' = AppendRecord(trade_log, TradeRecord(return_pct', total_commission'))
            /\ history' = Append(history, [signal      |-> k,
                                           capital     |-> capital,
                                           trade_value |-> trade_value,
                                           net_profit  |-> net_profit'])
            /\ capital' = NewCapital(capital, net_profit')
    /\ UNCHANGED <<args, calls, gui, fetcher, reader, entry, exit, equity_curve, sorted_signals,
                   all_trading_days, k, i>>

\* The returns of the records sold on a day, compounded.
RECURSIVE DailyReturnCompounded(_, _)
DailyReturnCompounded(log, d) ==
    IF log = <<>> THEN RInt(0)
    ELSE LET rest == DailyReturnCompounded(SubSeq(log, 1, Len(log) - 1), d)
             r    == log[Len(log)]
         IN  IF r.sell_date = d
             THEN RSub(RMul(RAdd(RInt(1), rest), RAdd(RInt(1), r.return_pct)), RInt(1))
             ELSE rest

\* Line 162: resample('D').sum() adds the returns of the records sold on a day.
RECURSIVE DailyReturn(_, _)
DailyReturn(log, d) ==
    IF log = <<>> THEN RInt(0)
    ELSE LET rest == DailyReturn(SubSeq(log, 1, Len(log) - 1), d)
             r    == log[Len(log)]
         IN  IF r.sell_date = d THEN RAdd(rest, r.return_pct) ELSE rest

\* Line 163: (1 + daily_returns).cumprod() over every day from the first sale on.
RECURSIVE CumulativeReturn(_, _, _)
CumulativeReturn(log, first, d) ==
    IF d < first THEN RInt(1)
    ELSE RMul(CumulativeReturn(log, first, d - 1), RAdd(RInt(1), DailyReturn(log, d)))

\* Lines 165-166: scaled, forward-filled onto the trading days, NaN set to
\* the initial capital.
EquityCurve(log, days, initial) ==
    LET sold  == {log[j].sell_date : j \in 1 .. Len(log)}
        first == CHOOSE d \in sold : \A e \in sold : d <= e
        last  == CHOOSE d \in sold : \A e \in sold : e <= d
    IN  [t \in {days[j] : j \in 1 .. Len(days)} |->
            IF t < first THEN initial
            ELSE RMul(initial, CumulativeReturn(log, first, IF t < last THEN t ELSE last))]

\* Lines 158-168: after the last signal, build the equity curve and return.
Finish ==
    /\ pc \in {"loop", "settled"}
    /\ k = Len(sorted_signals)
    /\ IF trade_log = <<>>
       THEN \* DataFrame([]).set_index('sell_date'): KeyError
            pc' = "raised" /\ UNCHANGED equity_curve
       ELSE /\ pc' = "done"
            /\ equity_curve' = EquityCurve(trade_log, all_trading_days, initial_capital)
    /\ UNCHANGED <<args, calls, gui, fetcher, reader, entry, exit, ledger, sorted_signals, all_trading_days, k, i>>

Next == Start \/ NextSignal \/ ScanDay \/ ForcedExit \/ Settle \/ Finish

Spec == Init /\ [][Next]_vars

\* The caller calls run_backtest a second time with the very objects it passed
\* the first time.  The arguments are what the first call left of them; the
\* locals of the first call are left as they stood, so that a second call
\* that read one of them before assigning it would show.  The for loop of
\* line 42 and the while loop of line 87 start anew.
CallAgain ==
    /\ pc \in {"done", "raised"}
    /\ run = 1
    /\ run' = 2
    /\ first_result' = [trade_log |-> trade_log, capital |-> capital,
                        equity_curve |-> equity_curve, pc |-> pc]
    /\ pc' = "start"
    /\ k' = 0
    /\ i' = 0
    /\ history' = <<>>
    /\ UNCHANGED <<args, gui, fetcher, reader,
                   entry, exit, trade_log, capital, total_commission,
                   net_profit, return_pct, equity_curve, sorted_signals,
                   all_trading_days>>

NextTwice == Next \/ CallAgain

SpecTwice == Init /\ [][NextTwice]_vars

\* run_backtest left uncalled while another part of the repository runs.
NoBacktest == Call([d \in Dates |-> "flat"], <<>>, 100000, RInt(1), 1, None, None)

----------------------------------------------------------------------------
(* gui_app.py: the two background tasks of StockToolGUI *)

MaxThreads == 2

Tasks == {"fetch", "select"}
ThreadField(task) == IF task = "fetch" THEN "fetch_thread" ELSE "select_thread"
StartBtn(task) == IF task = "fetch" THEN "fetch_btn" ELSE "select_btn"
StopBtn(task) == IF task = "fetch" THEN "stop_fetch_btn" ELSE "stop_select_btn"
Callback(task) == IF task = "fetch" THEN "fetch_completed" ELSE "selection_completed"

\* threading.Thread.is_alive of thread number t; 0 is None.
IsAlive(t) == t # 0 /\ threads[t].pc # "dead"

\* Popen.poll() is None for the subprocess of thread number t; 0 is None.
IsRunning(t) == t # 0 /\ threads[t].process = "running"

\* The guard of a start handler looking at the selection thread whatever the
\* task.
GuardedThreadOfSelection(task) == "select_thread"

\* Lines 410 and 606: the thread a start handler looks at before it starts one.
GuardedThread(task) == ThreadField(task)

\* Lines 452-454 and 633-635: a thread on run_subprocess, not yet run.
NewThread(task) ==
    [task |-> task, pc |-> "popen", process |-> "none", returncode |-> "none",
     stopped_by |-> "none"]

\* Lines 408-459 and 604-640: a click on a start button.  valid: the fields of
\* the form pass the checks of lines 414-436 or 610-620.
StartTask(task, valid) ==
    /\ app[StartBtn(task)] = "normal"
    /\ IF IsAlive(app[GuardedThread(task)])
       THEN \* messagebox.showwarning and return
            /\ shown' = shown \cup {task}
            /\ UNCHANGED <<app, threads>>
       ELSE IF ~valid
       THEN \* messagebox.showerror and return
            UNCHANGED <<app, threads, shown>>
       ELSE /\ Len(threads) < MaxThreads
            /\ threads' = Append(threads, NewThread(task))
            /\ app' = [app EXCEPT ![ThreadField(task)] = Len(threads) + 1,
                                  ![StartBtn(task)] = "disabled",
                                  ![StopBtn(task)] = "normal"]
            /\ UNCHANGED shown
    /\ UNCHANGED <<backtest, after_queue, fetcher, reader>>

start_fetch_data == \E valid \in BOOLEAN : StartTask("fetch", valid)
start_stock_selection == \E valid \in BOOLEAN : StartTask("select", valid)

\* A completion callback handed to Tk only when the subprocess was started.
CompletionScheduledIfStarted(t) == threads[t].process # "none"

\* Lines 538-548: the finally clause schedules the callback on every path.
CompletionScheduled(t) == TRUE

\* Lines 461-548: a step of the thread number t on run_subprocess.
WorkerStep(t) ==
    /\ t \in 1 .. Len(threads)
    /\ LET th == threads[t]
       IN  CASE th.pc = "popen" ->
                  \* lines 470-488: the temporary file and Popen, which may raise
                  /\ \/ threads' = [threads EXCEPT ![t].pc = "assign",
                                                   ![t].process = "running"]
                     \/ threads' = [threads EXCEPT ![t].pc = "finally"]
                  /\ UNCHANGED <<app, after_queue>>
             [] th.pc = "assign" ->
                  \* line 491
                  /\ app' = [app EXCEPT !.current_process = t]
                  /\ threads' = [threads EXCEPT ![t].pc = "poll"]
                  /\ UNCHANGED after_queue
             [] th.pc = "poll" ->
                  \* lines 495-535: the loop ends when poll() gives a return code
                  /\ th.process = "exited"
                  /\ threads' = [threads EXCEPT ![t].pc = "finally"]
                  /\ UNCHANGED <<app, after_queue>>
             [] th.pc = "finally" ->
                  \* line 540
                  /\ app' = [app EXCEPT !.current_process = 0]
                  /\ threads' = [threads EXCEPT ![t].pc = "after"]
                  /\ UNCHANGED after_queue
             [] th.pc = "after" ->
                  \* line 548
                  /\ after_queue' = IF CompletionScheduled(t)
                                    THEN Append(after_queue, Callback(th.task))
                                    ELSE after_queue
                  /\ threads' = [threads EXCEPT ![t].pc = "return"]
                  /\ UNCHANGED app
             [] th.pc = "return" ->
                  \* run_subprocess returns and the thread ends
                  /\ threads' = [threads EXCEPT ![t].pc = "dead"]
                  /\ UNCHANGED <<app, after_queue>>
             [] OTHER -> FALSE
    /\ UNCHANGED <<backtest, shown, fetcher, reader>>

run_subprocess == \E t \in 1 .. MaxThreads : WorkerStep(t)

\* The subprocess of thread t ends by itself, with return code 0 or another.
ProcessExits ==
    /\ \E t \in 1 .. Len(threads), code \in {"zero", "nonzero"} :
          /\ threads[t].process = "running"
          /\ threads' = [threads EXCEPT ![t].process = "exited",
                                        ![t].returncode = code]
    /\ UNCHANGED <<backtest, app, after_queue, shown, fetcher, reader>>

\* Lines 572-602 and 648-678: a click on a stop button.  The handler ends the
\* process app.current_process refers to, by terminate() and, after 5 seconds
\* of wait(), kill().
StopTask(task) ==
    /\ app[StopBtn(task)] = "normal"
    /\ IF IsRunning(app.current_process)
       THEN threads' = [threads EXCEPT ![app.current_process].process = "exited",
                                       ![app.current_process].returncode = "stopped",
                                       ![app.current_process].stopped_by = task]
       ELSE \* "no running process" is logged
            UNCHANGED threads
    /\ UNCHANGED <<backtest, app, after_queue, shown, fetcher, reader>>

stop_fetch_data == StopTask("fetch")
stop_stock_selection == StopTask("select")

\* Lines 566-570 and 642-646, run by Tk's main loop for root.after(0, ...).
RunCallback(task) ==
    /\ after_queue # <<>>
    /\ Head(after_queue) = Callback(task)
    /\ after_queue' = Tail(after_queue)
    /\ app' = [app EXCEPT ![StartBtn(task)] = "normal",
                          ![StopBtn(task)] = "disabled"]
    /\ UNCHANGED <<backtest, threads, shown, fetcher, reader>>

fetch_completed == RunCallback("fetch")
selection_completed == RunCallback("select")

InitGui == NoBacktest /\ NoGui /\ fetcher = NotCalled /\ reader = NotCalled

NextGui ==
    \/ start_fetch_data
    \/ start_stock_selection
    \/ run_subprocess
    \/ ProcessExits
    \/ stop_fetch_data
    \/ stop_stock_selection
    \/ fetch_completed
    \/ selection_completed

SpecGui == InitGui /\ [][NextGui]_vars

\* The threads run, and Tk's main loop runs the callbacks it holds.
SpecGuiLive ==
    /\ SpecGui
    /\ \A t \in 1 .. MaxThreads : WF_vars(WorkerStep(t))
    /\ WF_vars(fetch_completed)
    /\ WF_vars(selection_completed)

----------------------------------------------------------------------------
(* fetch_kline.py: fetch_one, with the file at csv_path *)

\* A row of a frame carries its date as a Timestamp (a day number); a row of a
\* CSV file carries it as text, the zero-padded digits read_csv parses and
\* to_csv writes.
ParseDate(text) == text[1] * 10 + text[2]
ReadRows(text) == [j \in 1 .. Len(text) |-> [date |-> ParseDate(text[j].date), close |-> text[j].close]]
WriteRows(df) == [j \in 1 .. Len(df) |-> [date |-> DateStr(df[j].date), close |-> df[j].close]]

\* The file at csv_path: whether there is one, whether read_csv can read it,
\* and its rows.
Absent == [exists |-> FALSE, readable |-> FALSE, rows |-> <<>>]
Unreadable == [exists |-> TRUE, readable |-> FALSE, rows |-> <<>>]
ReadCsv(file) == ReadRows(file.rows)
ToCsv(df) == [exists |-> TRUE, readable |-> TRUE, rows |-> WriteRows(df)]

\* pd.Timestamp.today(): the last day of the calendar; the day after is a
\* future date.
Today == MaxDay

\* The files there may be at csv_path: none, an unreadable one, or up to two
\* rows of close 10 on any dates, in any order.
Files ==
    {Absent, Unreadable}
        \cup {ToCsv([j \in 1 .. Len(ds) |-> [date |-> ds[j], close |-> 10]]) :
                 ds \in {<<>>} \cup UNION {[1 .. len -> Dates] : len \in 1 .. 2}}

\* What get_kline may return: up to two rows of close 11 in date order
\* (lines 176, 209, 232, 293), a date possibly repeated or in the future.
Frames ==
    {[j \in 1 .. Len(ds) |-> [date |-> ds[j], close |-> 11]] :
        ds \in {<<>>} \cup
               {ds \in UNION {[1 .. len -> 1 .. Today + 1] : len \in 1 .. 2} :
                   \A j \in 1 .. Len(ds) - 1 : ds[j] <= ds[j + 1]}}

\* drop_duplicates(subset="date") keeping the last row of a date.
DropDuplicatesKeepLast(df) ==
    LET keep == {j \in 1 .. Len(df) : \A h \in j + 1 .. Len(df) : df[h].date # df[j].date}
    IN  [j \in 1 .. Cardinality(keep) |->
            df[CHOOSE x \in keep : Cardinality({y \in keep : y < x}) = j - 1]]

\* drop_duplicates(subset="date"): the first row of every date, in the order
\* of the frame.
DropDuplicates(df) ==
    LET keep == {j \in 1 .. Len(df) : \A h \in 1 .. j - 1 : df[h].date # df[j].date}
    IN  [j \in 1 .. Cardinality(keep) |->
            df[CHOOSE x \in keep : Cardinality({y \in keep : y < x}) = j - 1]]

\* sort_values("date"): ascending; rows of one date keep no promised order,
\* the one of the frame is taken.
SortValues(df) ==
    LET Rank(j) == Cardinality({h \in 1 .. Len(df) :
                        \/ df[h].date < df[j].date
                        \/ df[h].date = df[j].date /\ h < j})
    IN  [r \in 1 .. Len(df) |-> df[CHOOSE j \in 1 .. Len(df) : Rank(j) = r - 1]]

\* Lines 411-417.  ValidateRaises: a date after today.
Validate(df) == SortValues(DropDuplicates(df))
ValidateRaises(df) == \E j \in 1 .. Len(Validate(df)) : Validate(df)[j].date > Today

\* Lines 460-464.
Merge(old_df, new_df) == SortValues(DropDuplicates(old_df \o new_df))

\* An attempt that found no data is tried again as well.
RetriesAfterNoData(result) == result \in {"raised", "empty"}

\* Lines 446-469: the loop goes to its next round only out of the except
\* clause; break leaves it.
RetriesAfter(result) == result = "raised"

FetchOne(file, inc, end_date) ==
    fetcher = [pc          |-> "entry",
               csv_path    |-> file,
               incremental |-> inc,
               start       |-> 1,
               end         |-> end_date,
               attempt     |-> 0,
               new_df      |-> <<>>,
               \* what each round of the loop came to, the file at the
               \* call, and whether line 471 logged its error
               results     |-> <<>>,
               existing    |-> file,
               error       |-> FALSE]

InitFetch ==
    /\ NoBacktest
    /\ NoGui
    /\ reader = NotCalled
    /\ \E file \in Files, inc \in BOOLEAN, end_date \in {1, MaxDay} :
          FetchOne(file, inc, end_date)

\* Lines 432-444: in incremental mode, a file whose last date is after end
\* ends the call; otherwise start moves to that last date.
FetchEntry ==
    /\ fetcher.pc = "entry"
    /\ LET file == fetcher.csv_path
           old_df == ReadCsv(file)
           \* an empty frame has no last date: the exception of lines 443-444
           readable == file.readable /\ old_df # <<>>
           last_date == CHOOSE d \in {old_df[j].date : j \in 1 .. Len(old_df)} :
                            \A j \in 1 .. Len(old_df) : old_df[j].date <= d
       IN  IF fetcher.incremental /\ file.exists /\ readable
           THEN IF last_date > fetcher.end
                THEN fetcher' = [fetcher EXCEPT !.pc = "returned"]
                ELSE fetcher' = [fetcher EXCEPT !.pc = "try", !.attempt = 1,
                                                !.start = last_date]
           ELSE \* no file, not incremental, or the exception of lines 443-444
                fetcher' = [fetcher EXCEPT !.pc = "try", !.attempt = 1]
    /\ UNCHANGED <<backtest, gui, reader>>

\* Lines 446-471: one round of the loop.  got: what get_kline comes to, an
\* exception or a frame.
FetchAttempt(got) ==
    /\ fetcher.pc = "try"
    /\ LET file == fetcher.csv_path
           merging == file.exists /\ fetcher.incremental
           result ==
               IF got.raises THEN "raised"
               ELSE IF got.df = <<>> THEN "empty"
               ELSE IF ValidateRaises(got.df) THEN "raised"
               ELSE IF merging /\ ~file.readable THEN "raised"
               ELSE "written"
           new_df == IF merging THEN Merge(ReadCsv(file), Validate(got.df))
                     ELSE Validate(got.df)
           again == RetriesAfter(result) /\ fetcher.attempt < 3
       IN  fetcher' =
             [fetcher EXCEPT
                !.results  = Append(@, result),
                !.pc       = IF again THEN "try" ELSE "returned",
                !.attempt  = IF again THEN @ + 1 ELSE @,
                !.new_df   = IF result = "written" THEN Validate(got.df) ELSE @,
                !.csv_path = IF result = "written" THEN ToCsv(new_df) ELSE @,
                !.error    = RetriesAfter(result) /\ ~again]
    /\ UNCHANGED <<backtest, gui, reader>>

\* What a call of get_kline comes to.
Returns(df) == [raises |-> FALSE, df |-> df]
Raises == [raises |-> TRUE, df |-> <<>>]

NextFetch == FetchEntry \/ \E got \in {Raises} \cup {Returns(df) : df \in Frames} : FetchAttempt(got)

SpecFetch == InitFetch /\ [][NextFetch]_vars

----------------------------------------------------------------------------
(* test.py: get_kline_data *)

\* The CSV texts explored: up to MaxDay rows on any dates, in any order, the
\* close of a row telling its place in the text.
CsvTexts ==
    {WriteRows([j \in 1 .. Len(ds) |-> [date |-> ds[j], close |-> j]]) :
        ds \in {<<>>} \cup UNION {[1 .. len -> Dates] : len \in 1 .. MaxDay}}

GetKlineDataCall(text, day, count) ==
    reader = [pc       |-> "called",
              csv_data |-> text,
              date     |-> DateStr(day),
              n        |-> count,
              result   |-> <<>>,
              raised   |-> "none"]

InitReader ==
    /\ NoBacktest
    /\ NoGui
    /\ fetcher = NotCalled
    /\ \E text \in CsvTexts, day \in 1 .. MaxDay + 1, count \in 0 .. MaxDay + 1 :
          GetKlineDataCall(text, day, count)

\* The range test taken with >=, which refuses a request that ends on the last
\* row.
OutOfRangeAtEnd(end_idx, length) == end_idx >= length

\* Line 56: end_idx > len(df).
OutOfRange(end_idx, length) == end_idx > length

\* Lines 36-60.  Positions count from 0, as the index of the frame does.
get_kline_data ==
    /\ reader.pc = "called"
    /\ LET df          == ReadRows(reader.csv_data)
           target_date == ParseDate(reader.date)
           matches     == {j \in 0 .. Len(df) - 1 : df[j + 1].date = target_date}
           start_idx   == CHOOSE j \in matches : \A h \in matches : j <= h
           end_idx     == start_idx + reader.n
       IN  IF matches = {}
           THEN \* IndexError at line 47, raised again as ValueError
                reader' = [reader EXCEPT !.pc = "raised", !.raised = "ValueError"]
           ELSE IF OutOfRange(end_idx, Len(df))
           THEN reader' = [reader EXCEPT !.pc = "raised", !.raised = "ValueError"]
           ELSE reader' = [reader EXCEPT !.pc = "returned",
                                         !.result = SubSeq(df, start_idx + 1, end_idx)]
    /\ UNCHANGED <<backtest, gui, fetcher>>

NextReader == get_kline_data

SpecReader == InitReader /\ [][NextReader]_vars

----------------------------------------------------------------------------
(* The vocabulary of the claims, stated on the inputs of the run *)

\* The trading calendar: the set of all dates in the price panel.  Position n
\* (from 0) is the date with n calendar dates before it.
Calendar == UNION {DOMAIN kline_df[c] : c \in DOMAIN kline_df}
NumSessions == Cardinality(Calendar)
IndexOf(d) == Cardinality({e \in Calendar : e < d})
IsSession(n) == n >= 0 /\ n < NumSessions
SessionAt(n) == CHOOSE d \in Calendar : IndexOf(d) = n
Halted(code, n) == SessionAt(n) \notin DOMAIN kline_df[code]
Quote(code, n) == kline_df[code][SessionAt(n)]

\* The trade of the signal in hand, once it is bought.
InTrade == pc \in {"scan", "exit", "settle", "settled"}
EntryIdx == IndexOf(buy_date)
\* The signal in hand has gone through the whole loop body; Emitted: with a record.
Emitted == history # <<>> /\ history[Len(history)].signal = k
LastRecord == trade_log[Len(trade_log)]
EmittedFor(n) == \E j \in 1 .. Len(history) : history[j].signal = n

\* The thresholds of a trade bought at price: high >= price * (1 + take_profit_pct)
\* and low <= price * (1 - stop_loss_pct), on the session at position n.
UpperThreshold(price) == RMul(price, RAdd(RInt(1), take_profit_pct))
LowerThreshold(price) == RMul(price, RSub(RInt(1), stop_loss_pct))
CrossesUpper(bar, price) ==
    take_profit_pct # None /\ RLe(UpperThreshold(price), RInt(bar.high))
CrossesLower(bar, price) ==
    stop_loss_pct # None /\ RLe(RInt(bar.low), LowerThreshold(price))
\* Offset m of the holding window is a session with a record that crosses a threshold.
Triggers(m) ==
    /\ IsSession(EntryIdx + m)
    /\ ~Halted(stock_code, EntryIdx + m)
    /\ \/ CrossesUpper(Quote(stock_code, EntryIdx + m), buy_price)
       \/ CrossesLower(Quote(stock_code, EntryIdx + m), buy_price)
NoTrigger == \A m \in 1 .. holding_period : ~Triggers(m)
FirstTrigger == CHOOSE m \in 1 .. holding_period :
                    Triggers(m) /\ \A n \in 1 .. m - 1 : ~Triggers(n)

\* open == high and open < 0.902 * previous-session close, at position n
LockedDown(code, n) ==
    /\ Quote(code, n).open = Quote(code, n).high
    /\ Quote(code, n).open * 1000 < Quote(code, n - 1).close * 902
\* open == low and open > 1.098 * previous-session close, at position n
LockedUp(code, n) ==
    /\ Quote(code, n).open = Quote(code, n).low
    /\ Quote(code, n).open * 1000 > Quote(code, n - 1).close * 1098

RECURSIVE SumNetProfit(_)
SumNetProfit(h) ==
    IF h = <<>> THEN RInt(0)
    ELSE RAdd(SumNetProfit(SubSeq(h, 1, Len(h) - 1)), h[Len(h)].net_profit)

----------------------------------------------------------------------------
(* The claims *)

\* C1: every record's buy_date is the first calendar date strictly after the
\* date of the signal it comes from, the calendar being the set of all dates
\* of the panel, whether or not the signal date is a calendar date.
C1_BuyDateIsNextSession ==
    \A j \in 1 .. Len(trade_log) :
        LET date == sorted_signals[history[j].signal].date
            r    == trade_log[j]
        IN  /\ r.buy_date \in Calendar
            /\ r.buy_date > date
            /\ \A d \in Calendar : d > date => r.buy_date <= d

\* A record whose signal date lies between calendar dates and is none itself.
C1_Witness ==
    \E j \in 1 .. Len(trade_log) :
        LET date == sorted_signals[history[j].signal].date
        IN  date \notin Calendar /\ \E d \in Calendar : d < date

\* C2: when the first session of the holding window that crosses a threshold
\* crosses both, the trade is recorded as take_profit at
\* buy_price * (1 + take_profit_pct), sold on that session.
C2_BothCrossedIsTakeProfit ==
    (pc = "settled" /\ ~NoTrigger) =>
        LET m   == FirstTrigger
            bar == Quote(stock_code, EntryIdx + m)
        IN  (CrossesUpper(bar, buy_price) /\ CrossesLower(bar, buy_price)) =>
                /\ Emitted
                /\ LastRecord.sell_reason = "take_profit"
                /\ REq(LastRecord.sell_price, UpperThreshold(buy_price))
                /\ LastRecord.sell_date = SessionAt(EntryIdx + m)

\* A settled trade whose second scanned session crosses both thresholds, the
\* first having crossed none.
C2_Witness ==
    /\ pc = "settled"
    /\ ~NoTrigger
    /\ FirstTrigger = 2
    /\ ~Halted(stock_code, EntryIdx + 1)
    /\ CrossesUpper(Quote(stock_code, EntryIdx + 2), buy_price)
    /\ CrossesLower(Quote(stock_code, EntryIdx + 2), buy_price)

\* C3: the scan looks at offsets 1..holding_period after the entry session
\* only, and the trade is sold on the first session of that window that has a
\* record crossing a threshold, at exactly that threshold; with no such
\* session it is not sold by a threshold.
C3_ExitAtFirstTrigger ==
    /\ pc = "scan" => i \in 1 .. holding_period /\ buy_date_loc = EntryIdx
    /\ pc = "settled" =>
          IF NoTrigger THEN sell_reason \notin {"take_profit", "stop_loss"}
          ELSE LET bar == Quote(stock_code, EntryIdx + FirstTrigger)
               IN  /\ Emitted
                   /\ LastRecord.sell_date = SessionAt(EntryIdx + FirstTrigger)
                   /\ \/ /\ LastRecord.sell_reason = "take_profit"
                         /\ CrossesUpper(bar, buy_price)
                         /\ REq(LastRecord.sell_price, UpperThreshold(buy_price))
                      \/ /\ LastRecord.sell_reason = "stop_loss"
                         /\ CrossesLower(bar, buy_price)
                         /\ REq(LastRecord.sell_price, LowerThreshold(buy_price))

\* A trade stopped out on a session that is followed, within the window, by a
\* session that crosses the take-profit threshold.
C3_Witness ==
    /\ pc = "settled"
    /\ Emitted
    /\ LastRecord.sell_reason = "stop_loss"
    /\ \E m \in FirstTrigger + 1 .. holding_period :
          /\ IsSession(EntryIdx + m)
          /\ ~Halted(stock_code, EntryIdx + m)
          /\ CrossesUpper(Quote(stock_code, EntryIdx + m), buy_price)

\* C4: per record, with notional = position_size * the capital held when the
\* signal was processed: total cost = notional * commission_rate +
\* notional * (exit / entry) * (commission_rate + stamp_duty_rate), net_profit
\* = notional * (exit / entry - 1) - total cost, return_pct = net_profit /
\* notional; entry 10, exit 10.5, position_size 1, capital 100000 and the
\* default rates give 166.5, 4833.5 and 0.048335.
C4_CostAndReturn ==
    \A j \in 1 .. Len(trade_log) :
        LET r        == trade_log[j]
            notional == RMul(history[j].capital, position_size)
            ratio    == RDiv(r.sell_price, r.buy_price)
            cost     == RAdd(RMul(notional, commission_rate),
                             RAdd(RMul(RMul(notional, ratio), commission_rate),
                                  RMul(RMul(notional, ratio), stamp_duty_rate)))
            profit   == RSub(RMul(notional, RSub(ratio, RInt(1))), cost)
        IN  /\ REq(r.commission, cost)
            /\ REq(history[j].net_profit, profit)
            /\ REq(r.return_pct, RDiv(profit, notional))
            /\ ( /\ REq(r.buy_price, RInt(10))
                 /\ REq(r.sell_price, RQ(105, 10))
                 /\ REq(notional, RInt(100000))
                 /\ REq(commission_rate, RQ(3, 10000))
                 /\ REq(stamp_duty_rate, RQ(1, 1000)) )
               => /\ REq(r.commission, RQ(1665, 10))
                  /\ REq(history[j].net_profit, RQ(48335, 10))
                  /\ REq(r.return_pct, RQ(48335, 1000000))

\* The record of the worked example.
C4_Witness ==
    \E j \in 1 .. Len(trade_log) :
        /\ REq(trade_log[j].buy_price, RInt(10))
        /\ REq(trade_log[j].sell_price, RQ(105, 10))
        /\ REq(RMul(history[j].capital, position_size), RInt(100000))

\* C5: from the first statement on, capital is initial_capital plus the
\* net_profit of the records logged so far, one per record, each record of a
\* different signal and none of the signal in hand before it is settled: a
\* signal without a record has changed neither.
C5_CapitalIsInitialPlusProfits ==
    pc # "start" =>
        /\ Len(history) = Len(trade_log)
        /\ REq(capital, RAdd(initial_capital, SumNetProfit(history)))
        /\ \A j \in 1 .. Len(history) :
              /\ history[j].signal \in 1 .. k
              /\ j > 1 => history[j - 1].signal < history[j].signal
              /\ pc \in {"scan", "exit", "settle"} => history[j].signal < k

\* The second signal has ended without a record, after the first was logged.
C5_Witness ==
    /\ pc = "settled"
    /\ k = 2
    /\ sell_price = None
    /\ Len(trade_log) = 1
    /\ ~REq(capital, initial_capital)

\* C6: the notional of each record is position_size times initial_capital
\* plus the net_profit of all records logged before it, whatever their
\* sell dates; the same holds of the trade in hand.
C6_NotionalFromCurrentCapital ==
    /\ \A j \in 1 .. Len(history) :
          REq(history[j].trade_value,
              RMul(RAdd(initial_capital, SumNetProfit(SubSeq(history, 1, j - 1))),
                   position_size))
    /\ pc \in {"scan", "exit", "settle"} =>
          REq(trade_value,
              RMul(RAdd(initial_capital, SumNetProfit(history)), position_size))

\* Two records, the earlier one sold after the later one was bought.
C6_Witness ==
    \E j \in 1 .. Len(trade_log) : \E n \in 1 .. j - 1 :
        /\ trade_log[n].sell_date > trade_log[j].buy_date
        /\ ~REq(history[j].trade_value, RMul(initial_capital, position_size))

\* Signal n buys on a session locked at the upper limit: the instrument has
\* a record on the first session after the signal date and on the session
\* before it, and open == low, open > 1.098 * that close.
LimitUpEntry(n) ==
    LET sig == sorted_signals[n]
        e   == Cardinality({d \in Calendar : d <= sig.date})
    IN  /\ IsSession(e)
        /\ IsSession(e - 1)
        /\ ~Halted(sig.code, e)
        /\ ~Halted(sig.code, e - 1)
        /\ LockedUp(sig.code, e)

\* C7: a signal that buys on a session locked at the upper limit has no
\* record, and when it has been processed capital is what it was before:
\* initial_capital plus the net_profit of the earlier signals' records.
C7_LimitUpIsDiscarded ==
    \A n \in 1 .. Len(sorted_signals) :
        LimitUpEntry(n) =>
            /\ ~EmittedFor(n)
            /\ n = k =>
                  /\ pc \in {"loop", "done", "raised"}
                  /\ REq(capital, RAdd(initial_capital,
                        SumNetProfit(SelectSeq(history, LAMBDA h : h.signal < n))))

\* The second signal was discarded at the upper limit, after the first was logged.
C7_Witness ==
    /\ pc = "loop"
    /\ k = 2
    /\ LimitUpEntry(2)
    /\ Len(trade_log) = 1

\* The session at position n is locked at the lower limit against no earlier
\* close of the instrument: neither the close of the session before it nor,
\* when the instrument was halted then, its last close before that.
NeverLockedDown(code, n) ==
    \A q \in 0 .. n - 1 :
        ~Halted(code, q) =>
            ~ /\ Quote(code, n).open = Quote(code, n).high
              /\ Quote(code, n).open * 1000 < Quote(code, q).close * 902

\* C8: with no trigger in the holding window, a forced-exit session that
\* exists, has a record of the instrument and is not locked at the lower
\* limit yields a record sold on that session at its close, with reason
\* holding_period.
C8_ForcedExitAtClose ==
    ( /\ pc = "settled"
      /\ NoTrigger
      /\ IsSession(EntryIdx + holding_period)
      /\ ~Halted(stock_code, EntryIdx + holding_period)
      /\ NeverLockedDown(stock_code, EntryIdx + holding_period) )
    => /\ Emitted
       /\ LastRecord.sell_date = SessionAt(EntryIdx + holding_period)
       /\ REq(LastRecord.sell_price,
              RInt(Quote(stock_code, EntryIdx + holding_period).close))
       /\ LastRecord.sell_reason = "holding_period"

\* C9: a trade that comes to its forced exit on a session with open == high
\* and open < 0.902 * the close of the session before ends with no record
\* and no sale, and capital is what it was before the signal.
C9_LimitDownIsUnresolved ==
    ( /\ pc = "settled"
      /\ NoTrigger
      /\ IsSession(EntryIdx + holding_period)
      /\ ~Halted(stock_code, EntryIdx + holding_period)
      /\ ~Halted(stock_code, EntryIdx + holding_period - 1)
      /\ LockedDown(stock_code, EntryIdx + holding_period) )
    => /\ ~Emitted
       /\ sell_price = None
       /\ sell_reason = NoneStr
       /\ REq(capital, RAdd(initial_capital,
             SumNetProfit(SelectSeq(history, LAMBDA h : h.signal < k))))

\* A trade has ended at a forced-exit session locked at the lower limit, with
\* sessions after it left in the calendar.
C9_Witness ==
    /\ pc = "settled"
    /\ NoTrigger
    /\ IsSession(EntryIdx + holding_period + 1)
    /\ ~Halted(stock_code, EntryIdx + holding_period)
    /\ ~Halted(stock_code, EntryIdx + holding_period - 1)
    /\ LockedDown(stock_code, EntryIdx + holding_period)

\* The record of offset m of the holding window, a halted session below
\* offset holding_period counting as a flat session at the entry price.
AsIfQuoted(m) ==
    IF m < holding_period /\ Halted(stock_code, EntryIdx + m)
    THEN LET p == Quote(stock_code, EntryIdx).open IN Bar(p, p, p, p)
    ELSE Quote(stock_code, EntryIdx + m)

\* C10: a trade with a halted session at an offset below holding_period ends
\* as it would with a record there that crosses no threshold: sold at the
\* first trigger, else at the close of the session at offset holding_period
\* if that session exists, has a record and is not locked at the lower limit,
\* else not at all.
C10_HaltIsNeutral ==
    ( /\ pc = "settled"
      /\ \E m \in 1 .. holding_period - 1 :
            IsSession(EntryIdx + m) /\ Halted(stock_code, EntryIdx + m) )
    => IF ~NoTrigger
       THEN /\ Emitted
            /\ LastRecord.sell_date = SessionAt(EntryIdx + FirstTrigger)
            /\ LastRecord.sell_reason \in {"take_profit", "stop_loss"}
       ELSE IF /\ IsSession(EntryIdx + holding_period)
               /\ ~Halted(stock_code, EntryIdx + holding_period)
               /\ ~ /\ AsIfQuoted(holding_period).open = AsIfQuoted(holding_period).high
                     /\ AsIfQuoted(holding_period).open * 1000
                          < AsIfQuoted(holding_period - 1).close * 902
       THEN /\ Emitted
            /\ LastRecord.sell_date = SessionAt(EntryIdx + holding_period)
            /\ REq(LastRecord.sell_price, RInt(AsIfQuoted(holding_period).close))
            /\ LastRecord.sell_reason = "holding_period"
       ELSE ~Emitted

\* The one-to-one maps of 1 .. n onto itself.
Rearrangements(n) ==
    {p \in [1 .. n -> 1 .. n] : \A a, b \in 1 .. n : p[a] = p[b] => a = b}

\* C11: the signals are processed in ascending order of date, those of one
\* date in their order in the input: the processing order is the input
\* rearranged by a map that keeps every pair of equal dates in place, and the
\* k-th signal taken is the k-th of that order.
C11_SignalsInStableDateOrder ==
    pc # "start" =>
        /\ \E p \in Rearrangements(Len(signals)) :
              /\ Len(sorted_signals) = Len(signals)
              /\ \A a \in 1 .. Len(signals) : sorted_signals[a] = signals[p[a]]
              /\ \A a, b \in 1 .. Len(signals) :
                    a < b => \/ signals[p[a]].date < signals[p[b]].date
                             \/ /\ signals[p[a]].date = signals[p[b]].date
                                /\ p[a] < p[b]
        /\ k \in 0 .. Len(sorted_signals)
        /\ k >= 1 => /\ signal_date = sorted_signals[k].date
                      /\ stock_code = sorted_signals[k].code

\* Two signals of one date, Y before X in the input, and X is the second taken.
C11_Witness ==
    /\ Len(signals) = 2
    /\ signals[1].date = signals[2].date
    /\ signals[1].code = "Y" /\ signals[2].code = "X"
    /\ k = 2
    /\ stock_code = "X"

\* C12: every step leaves the trade log as it is or adds one record at its
\* end, the record of the signal in hand, after the records of the signals
\* taken before it and of none taken after: the log is in processing order,
\* whatever the sell dates, and no record is moved, changed or removed.
C12_LogInProcessingOrder ==
    [][ \/ trade_log' = trade_log /\ history' = history
        \/ /\ Len(trade_log') = Len(trade_log) + 1
           /\ SubSeq(trade_log', 1, Len(trade_log)) = trade_log
           /\ Len(history') = Len(trade_log')
           /\ SubSeq(history', 1, Len(history)) = history
           /\ history'[Len(history')].signal = k
           /\ k' = k
           /\ \A j \in 1 .. Len(history) : history[j].signal < k
           /\ trade_log'[Len(trade_log')].code = sorted_signals[k].code
           /\ trade_log'[Len(trade_log')].buy_date = buy_date
           /\ trade_log'[Len(trade_log')].sell_date = sell_date ]_vars

\* Two records, the later one sold before the earlier one.
C12_Witness ==
    /\ Len(trade_log) = 2
    /\ trade_log[2].sell_date < trade_log[1].sell_date
    /\ history[1].signal < history[2].signal

\* The run is over: it has returned (done) or raised.
Returned == pc = "done"
Ended == pc \in {"done", "raised"}
ExitDates == {trade_log[j].sell_date : j \in 1 .. Len(trade_log)}

\* The curve has one value per calendar date, initial_capital before the
\* first exit date, and a value other than that of the calendar date before
\* on exit dates only.
EquityCurveShape ==
    /\ DOMAIN equity_curve = Calendar
    /\ \A d \in Calendar :
          /\ equity_curve[d] # None
          /\ (\A e \in ExitDates : d < e) => REq(equity_curve[d], initial_capital)
          /\ IndexOf(d) > 0 =>
                \/ REq(equity_curve[d], equity_curve[SessionAt(IndexOf(d) - 1)])
                \/ d \in ExitDates

\* C13: every run over a panel with dates, whatever the number of its
\* records, returns an equity curve with one value per calendar date, equal
\* to initial_capital before the first exit date and changing on exit dates
\* only.
C13_CurveOnEveryDate ==
    (Ended /\ Calendar # {}) => (Returned /\ EquityCurveShape)

\* The part of C13 on the runs that return.
ReturnedCurveShape == Returned => EquityCurveShape

\* The sum of return_pct over the first n records that exit on date e.
RECURSIVE SumReturnsOn(_, _)
SumReturnsOn(e, n) ==
    IF n = 0 THEN RInt(0)
    ELSE IF trade_log[n].sell_date = e
         THEN RAdd(SumReturnsOn(e, n - 1), trade_log[n].return_pct)
         ELSE SumReturnsOn(e, n - 1)

\* The product, over the dates of S in ascending order, of 1 + the sum of
\* the returns of the records exiting on the date.
RECURSIVE GrowthOver(_)
GrowthOver(S) ==
    IF S = {} THEN RInt(1)
    ELSE LET e == CHOOSE x \in S : \A y \in S : y <= x
         IN  RMul(GrowthOver(S \ {e}),
                  RAdd(RInt(1), SumReturnsOn(e, Len(trade_log))))

\* C14: on every calendar date d on or after the first exit date, the
\* returned equity is initial_capital times the product over the exit dates
\* e <= d of (1 + the sum of return_pct of the records exiting on e),
\* whatever the order of the records in the log.
C14_CurveIsProductOfDailySums ==
    Returned =>
        \A d \in Calendar :
            (\E e \in ExitDates : e <= d) =>
                REq(equity_curve[d],
                    RMul(initial_capital, GrowthOver({e \in ExitDates : e <= d})))

\* A returned run with two records of non-zero return exiting on one date.
C14_Witness ==
    /\ Returned
    /\ Len(trade_log) = 2
    /\ trade_log[1].sell_date = trade_log[2].sell_date
    /\ RSign(trade_log[1].return_pct) # 0
    /\ RSign(trade_log[2].return_pct) # 0

\* C15: a run over a panel with dates ends by returning, with a record in
\* the log for every signal that resolved and an equity curve, whichever of
\* its signals are discarded or left without a sale, all of them included.
C15_RunAlwaysReturns ==
    (Ended /\ Calendar # {} /\ signals # <<>>) =>
        /\ Returned
        /\ Len(trade_log) = Len(history)
        /\ DOMAIN equity_curve = Calendar

\* The configurations the specification calls invalid.
InvalidConfiguration ==
    \/ RSign(position_size) <= 0
    \/ RLt(RInt(1), position_size)
    \/ RSign(initial_capital) <= 0
    \/ holding_period < 1
    \/ RSign(commission_rate) < 0
    \/ RSign(stamp_duty_rate) < 0

\* C16: with an invalid configuration the run logs no record and returns no
\* equity curve.
C16_InvalidConfigurationRefused ==
    InvalidConfiguration => (trade_log = <<>> /\ ~Returned)

\* Capital is what it was before the signal in hand: initial_capital plus
\* the net_profit of the records of the signals taken before it.
CapitalAsBeforeSignal ==
    REq(capital, RAdd(initial_capital,
        SumNetProfit(SelectSeq(history, LAMBDA h : h.signal < k))))

\* C17 as stated: a trade whose window runs past the end of the calendar
\* (EntryIdx + holding_period is no position of it) has no record and leaves
\* capital unchanged.
C17_PastEndHasNoRecord ==
    (pc = "settled" /\ ~IsSession(EntryIdx + holding_period))
    => (~Emitted /\ CapitalAsBeforeSignal)

\* C17 amended: a trade whose window runs past the end of the calendar and
\* crosses no threshold on the sessions of the window that exist has no
\* record and no sale, and leaves capital unchanged.
C17_PastEndUntriggeredHasNoRecord ==
    (pc = "settled" /\ ~IsSession(EntryIdx + holding_period) /\ NoTrigger)
    => (~Emitted /\ sell_price = None /\ CapitalAsBeforeSignal)

\* Such a trade, with a session of its window in the calendar.
C17_Witness ==
    /\ pc = "settled"
    /\ ~IsSession(EntryIdx + holding_period)
    /\ NoTrigger
    /\ IsSession(EntryIdx + 1)
    /\ ~Halted(stock_code, EntryIdx + 1)

\* The position in the calendar of the first date after the date of signal n.
EntryOf(n) == Cardinality({d \in Calendar : d <= sorted_signals[n].date})
\* The signal in hand has been taken and the run has not gone on to the
\* next one: it was discarded (loop) or bought.
Decided == k >= 1 /\ pc \in {"loop", "scan", "exit", "settle", "settled"}

\* C18: a signal whose instrument has a record on the entry date and no
\* close on the calendar session before it - the entry date is the first of
\* the calendar, or the instrument has no record on the session before - is
\* bought at the open of the entry date, without the limit-up check.
C18_NoPreviousCloseSkipsCheck ==
    ( /\ Decided
      /\ IsSession(EntryOf(k))
      /\ ~Halted(sorted_signals[k].code, EntryOf(k))
      /\ \/ EntryOf(k) = 0
         \/ Halted(sorted_signals[k].code, EntryOf(k) - 1) )
    => /\ InTrade
       /\ buy_date = SessionAt(EntryOf(k))
       /\ REq(buy_price, RInt(Quote(stock_code, EntryOf(k)).open))

\* The part of C18 on an entry on the first date of the calendar.
FirstDateEntrySkipsCheck ==
    ( /\ Decided
      /\ IsSession(EntryOf(k))
      /\ ~Halted(sorted_signals[k].code, EntryOf(k))
      /\ EntryOf(k) = 0 )
    => /\ InTrade
       /\ buy_date = SessionAt(EntryOf(k))
       /\ REq(buy_price, RInt(Quote(stock_code, EntryOf(k)).open))

LastDate == CHOOSE d \in Calendar : \A e \in Calendar : e <= d

\* C19: a signal dated on or after the last calendar date is discarded - it
\* has no record, it is never bought and capital is after it what it was
\* before - and the run goes on: it ends only when every signal was taken.
C19_LateSignalIsDiscarded ==
    Calendar # {} =>
        /\ \A n \in 1 .. Len(sorted_signals) :
              sorted_signals[n].date >= LastDate =>
                  /\ ~EmittedFor(n)
                  /\ n = k => /\ pc \in {"loop", "done", "raised"}
                               /\ CapitalAsBeforeSignal
        /\ (Ended /\ sorted_signals # <<>>) => k = Len(sorted_signals)

\* A late signal was discarded and the signal after it, the last one, has
\* been taken and discarded too.
C19_Witness ==
    /\ Len(sorted_signals) >= 2
    /\ k = Len(sorted_signals)
    /\ pc = "loop"
    /\ sorted_signals[k - 1].date >= LastDate
    /\ sorted_signals[k].date >= LastDate

\* C20: a signal whose instrument has no record on the entry date is
\* discarded: it has no record, it is never bought, and capital is after it
\* what it was before.
C20_HaltedEntryIsDiscarded ==
    \A n \in 1 .. Len(sorted_signals) :
        (IsSession(EntryOf(n)) /\ Halted(sorted_signals[n].code, EntryOf(n))) =>
            /\ ~EmittedFor(n)
            /\ n = k => /\ pc \in {"loop", "done", "raised"}
                         /\ CapitalAsBeforeSignal

\* A signal was discarded on an entry date without a record of its
\* instrument, which trades on the date after.
C20_Witness ==
    /\ k >= 1
    /\ pc = "loop"
    /\ IsSession(EntryOf(k) + 1)
    /\ Halted(sorted_signals[k].code, EntryOf(k))
    /\ ~Halted(sorted_signals[k].code, EntryOf(k) + 1)

ExitReasons == {"take_profit", "stop_loss", "holding_period"}

\* C21: every signal is taken once and ends in one way: the log has one
\* record at most per signal taken, so never more records than signals; the
\* signal in hand has a record exactly when a sell price was set for it; and
\* every record has a sell date, a sell price and a reason among take_profit,
\* stop_loss and holding_period.
C21_OneOutcomePerSignal ==
    pc # "start" =>
        /\ Len(sorted_signals) = Len(signals)
        /\ k <= Len(sorted_signals)
        /\ Len(trade_log) = Len(history)
        /\ Len(trade_log) <= k
        /\ \A a, b \in 1 .. Len(history) :
              a < b => history[a].signal < history[b].signal
        /\ \A j \in 1 .. Len(trade_log) :
              /\ trade_log[j].sell_date # NoDate
              /\ trade_log[j].sell_price # None
              /\ trade_log[j].sell_reason \in ExitReasons
        /\ pc \in {"settle", "settled"} =>
              (sell_price # None <=> sell_reason \in ExitReasons)
        /\ pc = "settled" => (Emitted <=> sell_price # None)
        /\ (Ended /\ Calendar # {}) => k = Len(sorted_signals)

\* A trade has ended without a sale and without a record, on a forced-exit
\* date that was set.
C21_Witness ==
    /\ pc = "settled"
    /\ sell_price = None
    /\ sell_date # NoDate
    /\ ~Emitted

\* The number of times signal s is in the input, and its records in the log.
Occurrences(s) == Cardinality({a \in 1 .. Len(signals) : signals[a] = s})
RecordsOf(s) == {j \in 1 .. Len(history) : sorted_signals[history[j].signal] = s}

\* C22: at the end of a run, a signal that is in the input several times and
\* resolves has as many records as it has occurrences, all with the same buy
\* date, buy price, sell date, sell price and reason, each with the notional
\* position_size * the capital held when it was taken, which the records
\* before it have each incremented.
C22_DuplicatesAreIndependent ==
    (Ended /\ Calendar # {}) =>
        \A a \in 1 .. Len(signals) :
            LET s == signals[a] IN
            RecordsOf(s) # {} =>
                /\ Cardinality(RecordsOf(s)) = Occurrences(s)
                /\ \A j \in RecordsOf(s) :
                      /\ REq(history[j].trade_value,
                             RMul(history[j].capital, position_size))
                      /\ REq(history[j].capital,
                             RAdd(initial_capital,
                                  SumNetProfit(SubSeq(history, 1, j - 1))))
                      /\ \A n \in RecordsOf(s) :
                            /\ trade_log[j].buy_date = trade_log[n].buy_date
                            /\ REq(trade_log[j].buy_price, trade_log[n].buy_price)
                            /\ trade_log[j].sell_date = trade_log[n].sell_date
                            /\ REq(trade_log[j].sell_price, trade_log[n].sell_price)
                            /\ trade_log[j].sell_reason = trade_log[n].sell_reason

\* A run has ended with two records of one signal given twice, of different
\* notional.
C22_Witness ==
    /\ Ended
    /\ Len(signals) >= 2
    /\ signals[1] = signals[2]
    /\ Cardinality(RecordsOf(signals[1])) >= 2
    /\ ~REq(history[1].trade_value, history[2].trade_value)

C24_HoldingDaysAreCalendarDays ==
    \A j \in 1 .. Len(trade_log) :
        /\ trade_log[j].holding_days = trade_log[j].sell_date - trade_log[j].buy_date
        /\ holding_period >= 1 => trade_log[j].holding_days >= 1

\* A record whose entry and exit are further apart in days than in sessions.
C24_Witness ==
    /\ Emitted
    /\ LastRecord.holding_days > IndexOf(LastRecord.sell_date) - IndexOf(LastRecord.buy_date)

\* C25.  With take_profit_pct unset no record has reason take_profit, with
\* stop_loss_pct unset no record has reason stop_loss, and with both unset every
\* record has reason holding_period, its exit holding_period sessions after its
\* entry and its exit price the close of the instrument on that session.
C25_UnsetThresholdsNeverTrigger ==
    \A j \in 1 .. Len(trade_log) :
        LET r == trade_log[j]
            n == IndexOf(r.buy_date) + holding_period
        IN  /\ take_profit_pct = None => r.sell_reason # "take_profit"
            /\ stop_loss_pct = None => r.sell_reason # "stop_loss"
            /\ (take_profit_pct = None /\ stop_loss_pct = None) =>
                   /\ r.sell_reason = "holding_period"
                   /\ IndexOf(r.sell_date) = n
                   /\ IsSession(n) /\ ~Halted(r.code, n)
                   /\ REq(r.sell_price, RInt(Quote(r.code, n).close))

\* With both thresholds unset, a record of a trade that closed 5% or more above
\* its entry price.
C25_Witness ==
    /\ take_profit_pct = None /\ stop_loss_pct = None
    /\ Emitted
    /\ RLe(RMul(LastRecord.buy_price, RQ(105, 100)), LastRecord.sell_price)

\* C26.  Every record's exit date is a date of the calendar whose position is
\* at least one and at most holding_period sessions after the position of its
\* entry date, and a record with reason holding_period exits exactly
\* holding_period sessions after its entry.
C26_ExitInsideHoldingWindow ==
    \A j \in 1 .. Len(trade_log) :
        LET r == trade_log[j]
            entry_idx == IndexOf(r.buy_date)
            exit_idx == IndexOf(r.sell_date)
        IN  /\ r.buy_date \in Calendar
            /\ r.sell_date \in Calendar
            /\ IsSession(exit_idx)
            /\ entry_idx + 1 <= exit_idx
            /\ exit_idx <= entry_idx + holding_period
            /\ r.sell_reason = "holding_period" => exit_idx = entry_idx + holding_period

\* A threshold exit before the last session of a window of two sessions or more.
C26_Witness ==
    /\ Emitted
    /\ LastRecord.sell_reason \in {"take_profit", "stop_loss"}
    /\ IndexOf(LastRecord.sell_date) < IndexOf(LastRecord.buy_date) + holding_period

\* C27.  When a run returns, the value of the equity curve on the last calendar
\* date is the final capital, initial_capital plus the sum of net_profit over
\* the records of the trade log.
C27_CurveEndsAtFinalCapital ==
    Returned =>
        /\ REq(capital, RAdd(initial_capital, SumNetProfit(history)))
        /\ REq(equity_curve[LastDate], capital)

\* What the trade of signal s is, read from the signal, the panel,
\* holding_period, the thresholds and the two rates alone: the entry on the
\* first calendar date after the signal date at that session's open, the exit on
\* the first session of the window that crosses a threshold (take-profit
\* first) or else at the close holding_period sessions after the entry, and the
\* return per unit of notional.
EntryIdxOf(s) == Cardinality({d \in Calendar : d <= s.date})
EntryPriceOf(s) == RInt(Quote(s.code, EntryIdxOf(s)).open)
TriggersFor(s, m) ==
    /\ IsSession(EntryIdxOf(s) + m)
    /\ ~Halted(s.code, EntryIdxOf(s) + m)
    /\ \/ CrossesUpper(Quote(s.code, EntryIdxOf(s) + m), EntryPriceOf(s))
       \/ CrossesLower(Quote(s.code, EntryIdxOf(s) + m), EntryPriceOf(s))
ExitOf(s) ==
    IF \E m \in 1 .. holding_period : TriggersFor(s, m)
    THEN LET m == CHOOSE x \in 1 .. holding_period :
                      TriggersFor(s, x) /\ \A y \in 1 .. x - 1 : ~TriggersFor(s, y)
             up == CrossesUpper(Quote(s.code, EntryIdxOf(s) + m), EntryPriceOf(s))
         IN  [date   |-> SessionAt(EntryIdxOf(s) + m),
              price  |-> IF up THEN UpperThreshold(EntryPriceOf(s))
                         ELSE LowerThreshold(EntryPriceOf(s)),
              reason |-> IF up THEN "take_profit" ELSE "stop_loss"]
    ELSE [date   |-> SessionAt(EntryIdxOf(s) + holding_period),
          price  |-> RInt(Quote(s.code, EntryIdxOf(s) + holding_period).close),
          reason |-> "holding_period"]
ReturnOf(buy, sell) ==
    LET ratio == RDiv(sell, buy)
    IN  RSub(RSub(RSub(ratio, RInt(1)), commission_rate),
             RMul(ratio, RAdd(commission_rate, stamp_duty_rate)))

\* C28.  The entry date and price, the exit date, price and reason and the
\* return_pct of a record are determined by its signal, the panel,
\* holding_period, the thresholds and the two rates: they are the values above,
\* in which neither initial_capital nor position_size nor any other signal
\* occurs, and two records of equal signals agree on them whatever was
\* processed before each.  The cost of a record is the one part that follows
\* the capital it was sized with.
C28_RecordIndependentOfCapital ==
    /\ (pc = "settled" /\ Emitted) =>
           LET r == LastRecord
               s == sorted_signals[k]
           IN  /\ r.code = s.code
               /\ r.buy_date = SessionAt(EntryIdxOf(s))
               /\ REq(r.buy_price, EntryPriceOf(s))
               /\ r.sell_date = ExitOf(s).date
               /\ REq(r.sell_price, ExitOf(s).price)
               /\ r.sell_reason = ExitOf(s).reason
               /\ REq(r.return_pct, ReturnOf(EntryPriceOf(s), ExitOf(s).price))
               /\ REq(r.commission,
                      RMul(RMul(history[Len(history)].capital, position_size),
                           RAdd(commission_rate,
                                RMul(RDiv(r.sell_price, r.buy_price),
                                     RAdd(commission_rate, stamp_duty_rate)))))
    /\ Ended =>
           \A a, b \in 1 .. Len(trade_log) :
               sorted_signals[history[a].signal] = sorted_signals[history[b].signal] =>
                   /\ trade_log[a].buy_date = trade_log[b].buy_date
                   /\ trade_log[a].sell_date = trade_log[b].sell_date
                   /\ trade_log[a].sell_reason = trade_log[b].sell_reason
                   /\ REq(trade_log[a].buy_price, trade_log[b].buy_price)
                   /\ REq(trade_log[a].sell_price, trade_log[b].sell_price)
                   /\ REq(trade_log[a].return_pct, trade_log[b].return_pct)

\* The second of two records of equal signals is settled, out of another
\* capital and at another cost than the first.
C28_Witness ==
    /\ pc = "settled" /\ Emitted
    /\ Len(trade_log) >= 2
    /\ sorted_signals[history[Len(history) - 1].signal] = sorted_signals[k]
    /\ ~REq(history[Len(history) - 1].capital, history[Len(history)].capital)
    /\ ~REq(trade_log[Len(trade_log) - 1].commission, LastRecord.commission)

\* C29.  A trade whose first threshold crossing falls on a session that is
\* locked at the lower limit (open = high and open < 0.902 * the previous
\* session's close), or whose instrument has no record on the session before,
\* is closed there all the same, with reason take_profit or stop_loss and at
\* the threshold price: the limit-down test is made on forced exits only.
C29_ThresholdExitsIgnoreLimitDown ==
    pc = "settled" =>
        \A m \in 1 .. holding_period :
            LET n == EntryIdx + m
            IN  ( /\ Triggers(m)
                  /\ \A x \in 1 .. m - 1 : ~Triggers(x)
                  /\ \/ Halted(stock_code, n - 1)
                     \/ LockedDown(stock_code, n) ) =>
                    /\ Emitted
                    /\ LastRecord.sell_date = SessionAt(n)
                    /\ \/ /\ LastRecord.sell_reason = "take_profit"
                          /\ REq(LastRecord.sell_price, UpperThreshold(buy_price))
                       \/ /\ LastRecord.sell_reason = "stop_loss"
                          /\ REq(LastRecord.sell_price, LowerThreshold(buy_price))

\* A stop-loss recorded on a session locked at the lower limit.
C29_Witness ==
    /\ pc = "settled" /\ Emitted
    /\ LastRecord.sell_reason = "stop_loss"
    /\ ~Halted(stock_code, IndexOf(LastRecord.sell_date) - 1)
    /\ LockedDown(stock_code, IndexOf(LastRecord.sell_date))

\* C30.  The exit price of every record lies between the low and the high of
\* the instrument's record on the exit date.
C30_ExitPriceWithinBar ==
    \A j \in 1 .. Len(trade_log) :
        LET r   == trade_log[j]
            bar == kline_df[r.code][r.sell_date]
        IN  /\ RLe(RInt(bar.low), r.sell_price)
            /\ RLe(r.sell_price, RInt(bar.high))

----------------------------------------------------------------------------
(* The claims on gui_app.py *)

AliveThreads(task) ==
    {t \in 1 .. Len(threads) : threads[t].task = task /\ IsAlive(t)}
RunningProcesses(task) ==
    {t \in 1 .. Len(threads) : threads[t].task = task /\ IsRunning(t)}

\* C31.  At any time at most one thread of the fetch task is alive and at most
\* one subprocess of it runs, and the same for the selection task: a start
\* handler invoked while the thread of its task is alive starts nothing, the
\* thread it refers to stays the one that is alive.
C31_OneTaskOfAKind ==
    \A task \in Tasks :
        /\ Cardinality(AliveThreads(task)) <= 1
        /\ Cardinality(RunningProcesses(task)) <= 1
        /\ RunningProcesses(task) \subseteq AliveThreads(task)
        /\ AliveThreads(task) \subseteq {app[ThreadField(task)]}

\* The fetch handler was invoked while the fetch thread was alive and showed
\* its warning; that thread is still alive and no other was started.
C31_Witness ==
    /\ "fetch" \in shown
    /\ IsAlive(app.fetch_thread)
    /\ Len(threads) = 1

\* C32.  A stop handler ends only the subprocess of its own task, and a task
\* whose subprocess runs and is being watched by its thread can be stopped by
\* its own stop button: the button is enabled and the process the handler will
\* act on is that subprocess.
C32_StopEndsOwnTask ==
    /\ \A t \in 1 .. Len(threads) : threads[t].stopped_by \in {"none", threads[t].task}
    /\ \A t \in 1 .. Len(threads) :
          (IsRunning(t) /\ threads[t].pc = "poll") =>
              /\ app[StopBtn(threads[t].task)] = "normal"
              /\ app.current_process = t

\* The subprocess of thread t has come to its end or was never started.
Over(t) ==
    /\ t \in 1 .. Len(threads)
    /\ \/ threads[t].process = "exited"
       \/ threads[t].process = "none" /\ threads[t].pc # "popen"
Idle(task) == app[StartBtn(task)] = "normal" /\ app[StopBtn(task)] = "disabled"

\* C33.  Once the subprocess of the task last started on a tab has exited -
\* with return code 0 or another, stopped by a stop handler - or has failed to
\* start, the tab comes back to the idle state: the completion callback that
\* run_subprocess schedules enables the start button and disables the stop
\* button.
C33_TaskEndsIdle ==
    \A task \in Tasks : Over(app[ThreadField(task)]) ~> Idle(task)

\* A fetch task whose subprocess failed to start and a selection task whose
\* subprocess was stopped have both come back to idle.
C33_Witness ==
    /\ Len(threads) = 2
    /\ \E t \in 1 .. 2 : threads[t].process = "none" /\ threads[t].pc = "dead"
    /\ \E t \in 1 .. 2 : threads[t].returncode = "stopped" /\ threads[t].pc = "dead"
    /\ Idle("fetch") /\ Idle("select")
    /\ after_queue = <<>>

----------------------------------------------------------------------------
(* The claims on fetch_kline.py *)

\* C34.  fetch_one goes through at most three rounds of fetching and ends by
\* returning.  Every round but the last one raised an exception.  While it
\* runs and after three rounds that raised, with the error then logged, the
\* file is as it was at the call; so it is after a round that got no data;
\* otherwise the last round wrote the file.
C34_AtMostThreeAttempts ==
    fetcher.pc # "none" =>
        LET done == fetcher.results
            last == done[Len(done)]
        IN  /\ fetcher.pc \in {"entry", "try", "returned"}
            /\ Len(done) <= 3
            /\ \A j \in 1 .. Len(done) - 1 : done[j] = "raised"
            /\ fetcher.pc = "try" =>
                  /\ fetcher.attempt = Len(done) + 1
                  /\ fetcher.attempt <= 3
                  /\ \A j \in 1 .. Len(done) : done[j] = "raised"
            /\ fetcher.error <=>
                  (fetcher.pc = "returned" /\ Len(done) = 3 /\ last = "raised")
            /\ (fetcher.pc = "returned" /\ done # <<>> /\ last = "raised") => Len(done) = 3
            /\ (done = <<>> \/ last \in {"raised", "empty"}) =>
                  fetcher.csv_path = fetcher.existing
            /\ (done # <<>> /\ last = "written") =>
                  /\ fetcher.pc = "returned"
                  /\ fetcher.csv_path.exists /\ fetcher.csv_path.readable

\* Three rounds raised, the error is logged and a file that was there is
\* untouched.
C34_Witness ==
    /\ fetcher.pc = "returned"
    /\ fetcher.results = <<"raised", "raised", "raised">>
    /\ fetcher.error
    /\ fetcher.existing.readable /\ fetcher.existing.rows # <<>>

DatesOf(df) == {df[j].date : j \in 1 .. Len(df)}

\* C35.  In incremental mode, the file fetch_one writes over an existing file
\* has one row for every date of the existing file and of the fetched frame
\* and no other row, the rows in ascending order of date, and the row of a date
\* the existing file has is a row of the existing file.
C35_IncrementalMerge ==
    ( /\ fetcher.pc = "returned"
      /\ fetcher.incremental
      /\ fetcher.existing.exists
      /\ fetcher.results # <<>>
      /\ fetcher.results[Len(fetcher.results)] = "written" ) =>
        LET written == fetcher.csv_path.rows
            old     == fetcher.existing.rows
        IN  /\ DatesOf(ReadRows(written)) =
                   DatesOf(ReadRows(old)) \cup DatesOf(fetcher.new_df)
            /\ \A a, b \in 1 .. Len(written) :
                   a < b => ParseDate(written[a].date) < ParseDate(written[b].date)
            /\ \A j \in 1 .. Len(written) :
                   IF ParseDate(written[j].date) \in DatesOf(ReadRows(old))
                   THEN \E h \in 1 .. Len(old) : old[h] = written[j]
                   ELSE \E h \in 1 .. Len(fetcher.new_df) :
                            WriteRows(fetcher.new_df)[h] = written[j]

\* A file of two rows out of date order is merged with a frame that has one of
\* its dates and a later one: three rows are written.
C35_Witness ==
    /\ fetcher.pc = "returned"
    /\ fetcher.incremental
    /\ fetcher.results # <<>>
    /\ fetcher.results[Len(fetcher.results)] = "written"
    /\ Len(fetcher.existing.rows) = 2
    /\ ParseDate(fetcher.existing.rows[1].date) > ParseDate(fetcher.existing.rows[2].date)
    /\ DatesOf(ReadRows(fetcher.existing.rows)) \cap DatesOf(fetcher.new_df) # {}
    /\ Len(fetcher.csv_path.rows) = 3

----------------------------------------------------------------------------
(* The claim on test.py *)

\* C36.  get_kline_data returns the n rows that start at the first row of the
\* given date, in the order of the data, when the data has the date and at
\* least n rows from that row on; in every other case it raises ValueError and
\* returns nothing.
C36_ExactlyNRowsOrValueError ==
    reader.pc \in {"returned", "raised"} =>
        LET df    == ReadRows(reader.csv_data)
            day   == ParseDate(reader.date)
            hits  == {j \in 1 .. Len(df) : df[j].date = day}
            from  == CHOOSE j \in hits : \A h \in hits : j <= h
        IN  IF hits = {} \/ Len(df) - from + 1 < reader.n
            THEN /\ reader.pc = "raised"
                 /\ reader.raised = "ValueError"
                 /\ reader.result = <<>>
            ELSE /\ reader.pc = "returned"
                 /\ reader.raised = "none"
                 /\ Len(reader.result) = reader.n
                 /\ \A j \in 1 .. reader.n : reader.result[j] = df[from + j - 1]

\* Two rows or more are returned, down to the last row of data in which the
\* date occurs twice.
C36_Witness ==
    /\ reader.pc = "returned"
    /\ reader.n >= 2
    /\ Cardinality({j \in 1 .. Len(reader.csv_data) :
                       reader.csv_data[j].date = reader.date}) = 2
    /\ reader.result[reader.n] = ReadRows(reader.csv_data)[Len(reader.csv_data)]

============================================================================
